---- MODULE Spec2Model ----
(***************************************************************************)
(* A model of the training-data generation and the training of aces:       *)
(*   src/aces/utils.py                         EEUtils, TFUtils, Utils     *)
(*   src/examples/generate_training_patches.py TrainingDataGenerator       *)
(*   src/aces/model_trainer.py                 ModelTrainer                *)
(*                                                                         *)
(* The specifications of the module:                                       *)
(*   SpecPatch   one patch through filter_good_patches, beam_serialize and *)
(*               the decoding of the record (pure functions, inputs drawn  *)
(*               in the initial state);                                    *)
(*   SpecRetry   one call of get_patch under retry.Retry(timeout=300);     *)
(*   Spec        the Beam pipelines of generate_training_patch_data and    *)
(*               generate_training_patch_seed_data, element by element;    *)
(*   SpecTask    the task functions on the worker processes;               *)
(*   SpecSplit   split_dataset, element after element in one process;      *)
(*   SpecRun     the run methods: load_data, then a pipeline or the point  *)
(*               exports;                                                  *)
(*   SpecExport  one call of export_collection_data;                       *)
(*   SpecCompute one call of compute_pixel under retry.Retry();            *)
(*   SpecPersist the paths of the written streams;                         *)
(*   SpecTrain   train_model, step by step, for two trainers sharing one   *)
(*               output directory.                                         *)
(***************************************************************************)
EXTENDS Integers, Sequences, FiniteSets, TLC

VARIABLES
    \* ---- SpecPatch
    patch,      \* the structured array returned by get_patch
    ppc,        \* "fetched" | "filtered" | "serialized" | "decoded"
    verdict,    \* what filter_good_patches returned ("none" before it ran)
    record,     \* the bytes of beam_serialize, as a sequence of named entries
    decoded,    \* the record parsed back by the consumer
    \* ---- SpecRetry
    script,     \* the backend: k failures of one kind, then a final answer
    rpc,        \* "calling" | "returned" | "raised"
    now,        \* seconds since the wrapper was entered (time.monotonic)
    started,    \* when the latest call of get_patch started
    calls,      \* calls of get_patch so far
    max_delay,  \* the sleep generator's current upper bound
    last_exc,   \* what the latest call of get_patch raised ("none": it returned)
    next_sleep, \* the sleep drawn after the latest failed call
    exc,        \* what the wrapper raised ("none": nothing)
    \* ---- Spec
    mode,        \* "patch": generate_training_patch_data, "seed": ..._seed_data
    sample_size, \* self.sample_size
    rnd,         \* the "random" column of each sample, in percent
    list_len,    \* the length of self.sample_locations_list
    run,         \* seed mode: the collection whose pipeline runs (0, 1, 2)
    pstate,      \* "loaded" | "running" | "failed" | "done"
    tasks,       \* the indices "Create range" produced for the running pipeline
    el,          \* per sample: the stage it reached, its patch, its partition
    out,         \* per output stream: the samples whose record was written
    failure,     \* the exception that failed the pipeline ("none": nothing)
    printed,     \* the lines the job printed (load_data and the workers)
    \* ---- SpecTask
    scale,       \* the scale handed to beam_get_training_patches
    patch_size,  \* the patch size handed to beam_get_training_patches
    wsession,    \* per worker process: ee.Initialize has run in this process
    wtask,       \* per worker process: the call of a task function it executes
    \* ---- SpecSplit
    vratio,      \* validation_ratio, in percent
    tratio,      \* test_ratio, in percent
    gen,         \* the state of the random module's generator of the process
    gen0,        \* the state that generator had when the process started
    draws,       \* the elements partitioned so far
    received,    \* the partitions that received an element
    \* ---- SpecRun
    include_after, \* self.include_after
    load_exc,      \* what load_data raised ("none": nothing)
    exports,       \* the table exports issued by generate_training_point_data
    \* ---- SpecExport
    export_type,    \* the export_type argument of export_collection_data
    start_training, \* its start_training argument
    params,         \* its keyword arguments (**params)
    backend_up,     \* the backend answers the requests of this call
    epc,            \* "called" | "second_if" | "returned" | "raised"
    xtasks,         \* the export tasks the call created
    xexc,           \* what the call raised ("none": nothing)
    \* ---- SpecPersist
    kernel_size,    \* self.kernel_size
    wafter,         \* self.include_after of the generator that writes
    wmode,          \* "patch" | "seed": the method that writes
    written,        \* the records written: path, stream and record
    \* ---- SpecTrain
    trainer,        \* per ModelTrainer: its configuration, position and attributes
    dirs,           \* the versions whose directory exists under OUTPUT_DIR
    dirs0,          \* the versions that existed before any trainer started
    outdir          \* OUTPUT_DIR exists

patchVars == <<patch, ppc, verdict, record, decoded>>
retryVars == <<script, rpc, now, started, calls, max_delay, last_exc, next_sleep, exc>>

pipeVars == <<mode, sample_size, rnd, list_len, run, pstate, tasks, el, out, failure,
              printed>>

taskVars == <<scale, patch_size, wsession, wtask>>

splitVars == <<vratio, tratio, gen, gen0, draws, received>>

runVars == <<include_after, load_exc, exports>>

exportVars == <<export_type, start_training, params, backend_up, epc, xtasks, xexc>>

persistVars == <<kernel_size, wafter, wmode, written>>

trainVars == <<trainer, dirs, dirs0, outdir>>

auxVars == <<taskVars, splitVars, runVars, exportVars, persistVars, trainVars>>

vars == <<patchVars, retryVars, pipeVars, auxVars>>

(***************************************************************************)
(* The groups of variables a specification does not use rest in these      *)
(* states.                                                                 *)
(***************************************************************************)
MaxWorkers == 2

Workers == 1..MaxWorkers

\* A worker process between two calls of a task function.
NoTask == [kind |-> "none", pc |-> "idle", own_init |-> FALSE, reqs |-> 0,
           coords |-> <<0, 0>>, region |-> << >>, via |-> "none"]

TaskIdle ==
    /\ scale = 0
    /\ patch_size = 0
    /\ wsession = [w \in Workers |-> FALSE]
    /\ wtask = [w \in Workers |-> NoTask]

SplitIdle ==
    /\ vratio = 0
    /\ tratio = 0
    /\ gen = 0
    /\ gen0 = 0
    /\ draws = 0
    /\ received = {}

\* The constructor's default of include_after; no run started.
RunIdle ==
    /\ include_after = FALSE
    /\ load_exc = "none"
    /\ exports = {}

ExportIdle ==
    /\ export_type = "cloud"
    /\ start_training = TRUE
    /\ params = << >>
    /\ backend_up = TRUE
    /\ epc = "idle"
    /\ xtasks = {}
    /\ xexc = "none"

\* The constructor's kernel size and include_after; nothing written.
DefaultKernelSize == 128

PersistIdle ==
    /\ kernel_size = DefaultKernelSize
    /\ wafter = FALSE
    /\ wmode = "patch"
    /\ written = {}

Trainers == {1, 2}

\* A ModelTrainer whose train_model was not called.
NoTrainer == [ai |-> FALSE, dnn |-> FALSE, pc |-> "idle", model |-> FALSE,
              model_ |-> FALSE, iterator |-> 0, save_dir |-> 0, created |-> 0,
              exc |-> "none"]

TrainIdle ==
    /\ trainer = [t \in Trainers |-> NoTrainer]
    /\ dirs = {}
    /\ dirs0 = {}
    /\ outdir = TRUE

AuxIdle ==
    /\ TaskIdle /\ SplitIdle /\ RunIdle
    /\ ExportIdle /\ PersistIdle /\ TrainIdle

(***************************************************************************)
(* float32.  A value is an integer code: the finite values are             *)
(* -FMax..FMax, and PInf, NInf and NaN are the three special values.  An   *)
(* addition whose exact result leaves the finite range overflows to an     *)
(* infinity, as float32 addition does; rounding is not modelled.           *)
(***************************************************************************)
FMax == 2

PInf == FMax + 1
NInf == -(FMax + 1)
NaN == FMax + 2

F32Finite == (-FMax)..FMax
F32 == F32Finite \cup {PInf, NInf, NaN}

IsNaN(x) == x = NaN
IsInf(x) == x = PInf \/ x = NInf
IsFinite(x) == x \in F32Finite

\* IEEE addition on the codes.
F32Add(a, b) ==
    IF IsNaN(a) \/ IsNaN(b) THEN NaN
    ELSE IF IsInf(a) /\ IsInf(b) THEN (IF a = b THEN a ELSE NaN)
    ELSE IF IsInf(a) THEN a
    ELSE IF IsInf(b) THEN b
    ELSE IF a + b > FMax THEN PInf
    ELSE IF a + b < -FMax THEN NInf
    ELSE a + b

\* IEEE equality: NaN equals nothing, itself included.
F32Eq(a, b) == ~IsNaN(a) /\ ~IsNaN(b) /\ a = b

(***************************************************************************)
(* Patches.  get_patch returns a structured array of shape                 *)
(* (patch_size, patch_size) with one float32 field per requested band:     *)
(* names is dtype.names, data[name][r][c] the value of the band at row r,  *)
(* column c.                                                               *)
(***************************************************************************)
PatchSize == 2
MaxBands == 2

AllBandNames == <<"B_before", "G_before", "R_before", "class">>

\* The configured band lists (Config.FEATURES plus the label): the prefixes.
BandLists == { SubSeq(AllBandNames, 1, n) : n \in 1..MaxBands }

Range(s) == { s[i] : i \in DOMAIN s }

Pixels == 1..PatchSize

\* The cells of a patch with these names, as <<band index, row, column>>.
Cells(names) == (1..Len(names)) \X Pixels \X Pixels

\* A patch whose cells hold base, except cell c1 (v1) and cell c2 (v2).
PatchOf(names, base, c1, v1, c2, v2) ==
    [ names |-> names,
      data  |-> [ nm \in Range(names) |->
                    [ r \in Pixels |->
                        [ c \in Pixels |->
                            LET b == CHOOSE i \in 1..Len(names) : names[i] = nm
                            IN  IF <<b, r, c>> = c1 THEN v1
                                ELSE IF <<b, r, c>> = c2 THEN v2
                                ELSE base ] ] ] ]

CellLess(c1, c2) ==
    \/ c1[1] < c2[1]
    \/ c1[1] = c2[1] /\ c1[2] < c2[2]
    \/ c1[1] = c2[1] /\ c1[2] = c2[2] /\ c1[3] < c2[3]

CellPairs(names) ==
    { pr \in Cells(names) \X Cells(names) : CellLess(pr[1], pr[2]) }

\* The patches the backend is taken to return.
IsBackendPatch(p) ==
    \E names \in BandLists, base \in {0, FMax}, v1 \in F32, v2 \in F32 :
        \E pr \in CellPairs(names) :
            p = PatchOf(names, base, pr[1], v1, pr[2], v2)

PatchValues(p) ==
    { p.data[nm][r][c] : nm \in Range(p.names), r \in Pixels, c \in Pixels }

AllFinite(p) == \A v \in PatchValues(p) : IsFinite(v)

(***************************************************************************)
(* Utils.filter_good_patches.                                              *)
(***************************************************************************)
\* patch.view(np.float32): the memory of the structured array, row by row,
\* pixel by pixel, and within a pixel field by field.
ViewFloat32(p) ==
    LET nb == Len(p.names)
        n  == PatchSize * PatchSize * nb
    IN  [ k \in 1..n |->
            LET px == (k - 1) \div nb
                b  == ((k - 1) % nb) + 1
                r  == (px \div PatchSize) + 1
                c  == (px % PatchSize) + 1
            IN  p.data[p.names[b]][r][c] ]

RECURSIVE SumPrefix(_, _)
SumPrefix(s, n) == IF n = 0 THEN 0 ELSE F32Add(SumPrefix(s, n - 1), s[n])

\* np.sum with a float32 accumulator.
NpSum(s) == SumPrefix(s, Len(s))

filter_good_patches(p) ==
    LET has_nan == IsNaN(NpSum(ViewFloat32(p)))
        has_inf == IsInf(NpSum(ViewFloat32(p)))
    IN  IF has_nan \/ has_inf THEN FALSE ELSE TRUE

(***************************************************************************)
(* TFUtils.beam_serialize.  The record is a tf.train.Example: a map from   *)
(* feature name to a FloatList, whose values go on the wire as packed      *)
(* little-endian 32-bit words.  It is modelled as a sequence of entries    *)
(* <<name, bytes>>, in the order of dtype.names.                           *)
(***************************************************************************)
\* The 32-bit word of a float32 (an injective coding of the model's values).
F32Bits(v) == v + FMax + 1
F32FromBits(w) == w - FMax - 1

LittleEndian(w) ==
    << w % 256, (w \div 256) % 256, (w \div 65536) % 256, (w \div 16777216) % 256 >>

RECURSIVE PackFloats(_)
PackFloats(vals) ==
    IF vals = << >> THEN << >>
    ELSE LittleEndian(F32Bits(Head(vals))) \o PackFloats(Tail(vals))

MutFlattenColumnMajor(arr) ==
    [ k \in 1..(PatchSize * PatchSize) |->
        arr[((k - 1) % PatchSize) + 1][((k - 1) \div PatchSize) + 1] ]

\* ndarray.flatten(): row-major (C order).
Flatten(arr) ==
    [ k \in 1..(PatchSize * PatchSize) |->
        arr[((k - 1) \div PatchSize) + 1][((k - 1) % PatchSize) + 1] ]

MutSerializeDropsLast(p) ==
    [ i \in 1..(Len(p.names) - 1) |->
        [ name |-> p.names[i], value |-> PackFloats(Flatten(p.data[p.names[i]])) ] ]

beam_serialize(p) ==
    [ i \in 1..Len(p.names) |->
        [ name |-> p.names[i], value |-> PackFloats(Flatten(p.data[p.names[i]])) ] ]

(***************************************************************************)
(* The consumer's reading of a record: every named entry parsed back into  *)
(* its list of float32 values.                                             *)
(***************************************************************************)
WordOf(bytes, j) ==
    bytes[4 * j - 3] + 256 * bytes[4 * j - 2]
        + 65536 * bytes[4 * j - 1] + 16777216 * bytes[4 * j]

UnpackFloats(bytes) ==
    [ j \in 1..(Len(bytes) \div 4) |-> F32FromBits(WordOf(bytes, j)) ]

ParseExample(rec) ==
    [ nm \in { rec[i].name : i \in DOMAIN rec } |->
        UnpackFloats((CHOOSE e \in Range(rec) : e.name = nm).value) ]

PatchIdle ==
    /\ ppc = "idle"
    /\ patch = << >>
    /\ verdict = "none"
    /\ record = << >>
    /\ decoded = << >>

PipeIdle ==
    /\ mode = "idle"
    /\ sample_size = 0
    /\ rnd = << >>
    /\ list_len = 0
    /\ run = 0
    /\ pstate = "idle"
    /\ tasks = {}
    /\ el = << >>
    /\ out = << >>
    /\ failure = "none"
    /\ printed = {}

(***************************************************************************)
(* get_patch under @retry.Retry(timeout=300) (google.api_core.retry).      *)
(* The decorator is given the timeout alone: the predicate, the initial    *)
(* and the maximum delay and the multiplier are the library's defaults.    *)
(***************************************************************************)
Timeout == 300
RetryInitial == 1
RetryMaximum == 60
RetryMultiplier == 2

MaxK == 8
MaxCallSeconds == 30

Min(a, b) == IF a < b THEN a ELSE b

\* What the backend answers to the n-th call: script.k failures of kind
\* script.kind ("429": an HTTP 429 response; "conn": the connection drops),
\* then script.final (an HTTP status).
Response(n) == IF n <= script.k THEN script.kind ELSE script.final

\* One call of get_patch: the exception it raises, "none" when it returns the
\* array.  requests.get raises ConnectionError itself; a 429 is turned into
\* TooManyRequests; raise_for_status raises HTTPError for every other status
\* that is not a success.
get_patch(resp) ==
    IF resp = "conn" THEN "ConnectionError"
    ELSE IF resp = "429" THEN "TooManyRequests"
    ELSE IF resp # "200" THEN "HTTPError"
    ELSE "none"

MutRetryEverything(e) == TRUE

\* retry.if_transient_error, the default predicate.
if_transient_error(e) ==
    e \in { "InternalServerError", "TooManyRequests", "ServiceUnavailable",
            "ConnectionError", "ChunkedEncodingError", "TransportError" }

MutDeadlineNeverExceeded(t, sleep) == FALSE

\* The deadline test made after a retryable failure, at time t, with the next
\* sleep already drawn.
DeadlineExceeded(t, sleep) == t + sleep > Timeout

\* random.uniform(0.0, max_delay): the ends and the middle.
SleepChoices(d) == {0, d \div 2, d}

CallDurations == {0, MaxCallSeconds}

RetryIdle ==
    /\ script = [k |-> 0, kind |-> "429", final |-> "200"]
    /\ rpc = "idle"
    /\ now = 0
    /\ started = 0
    /\ calls = 0
    /\ max_delay = 0
    /\ last_exc = "none"
    /\ next_sleep = 0
    /\ exc = "none"

RetryInit ==
    /\ script \in [k : 0..MaxK, kind : {"429", "conn"}, final : {"200", "404"}]
    /\ rpc = "calling"
    /\ now = 0
    /\ started = 0
    /\ calls = 0
    /\ max_delay = Min(RetryInitial, RetryMaximum)
    /\ last_exc = "none"
    /\ next_sleep = 0
    /\ exc = "none"
    /\ PatchIdle
    /\ PipeIdle
    /\ AuxIdle

\* One turn of retry_target's loop: call get_patch; return its result; raise
\* what the predicate does not accept; otherwise raise RetryError when the
\* deadline would pass during the next sleep, and sleep if not.
Attempt ==
    /\ rpc = "calling"
    /\ \E dur \in CallDurations, sleep \in SleepChoices(max_delay) :
         LET e == get_patch(Response(calls + 1))
             t == now + dur
         IN  /\ started' = now
             /\ calls' = calls + 1
             /\ last_exc' = e
             /\ IF e = "none"
                   THEN /\ rpc' = "returned"
                        /\ now' = t
                        /\ UNCHANGED <<exc, next_sleep, max_delay>>
                ELSE IF ~if_transient_error(e)
                   THEN /\ rpc' = "raised"
                        /\ exc' = e
                        /\ now' = t
                        /\ UNCHANGED <<next_sleep, max_delay>>
                ELSE IF DeadlineExceeded(t, sleep)
                   THEN /\ rpc' = "raised"
                        /\ exc' = "RetryError"
                        /\ now' = t
                        /\ next_sleep' = sleep
                        /\ UNCHANGED max_delay
                ELSE /\ rpc' = "calling"
                     /\ now' = t + sleep
                     /\ next_sleep' = sleep
                     /\ max_delay' = Min(max_delay * RetryMultiplier, RetryMaximum)
                     /\ UNCHANGED exc
    /\ UNCHANGED <<script, patchVars, pipeVars, auxVars>>

RetryNext == Attempt

SpecRetry == RetryInit /\ [][RetryNext]_vars

(***************************************************************************)
(* SpecPatch: one patch through the validator, the serializer and the      *)
(* reader.                                                                 *)
(***************************************************************************)
PatchInit ==
    /\ IsBackendPatch(patch)
    /\ ppc = "fetched"
    /\ verdict = "none"
    /\ record = << >>
    /\ decoded = << >>
    /\ RetryIdle
    /\ PipeIdle
    /\ AuxIdle

\* "Filter patches" >> beam.Filter(Utils.filter_good_patches)
FilterGoodPatches ==
    /\ ppc = "fetched"
    /\ verdict' = IF filter_good_patches(patch) THEN "accept" ELSE "reject"
    /\ ppc' = "filtered"
    /\ UNCHANGED <<patch, record, decoded, retryVars, pipeVars, auxVars>>

\* "Serialize" >> beam.Map(TFUtils.beam_serialize): after the filter when the
\* pipeline has one and the patch passed it, straight after the fetch in
\* generate_training_patch_seed_data.
BeamSerialize ==
    /\ \/ ppc = "fetched"
       \/ ppc = "filtered" /\ verdict = "accept"
    /\ record' = beam_serialize(patch)
    /\ ppc' = "serialized"
    /\ UNCHANGED <<patch, verdict, decoded, retryVars, pipeVars, auxVars>>

DecodeRecord ==
    /\ ppc = "serialized"
    /\ decoded' = ParseExample(record)
    /\ ppc' = "decoded"
    /\ UNCHANGED <<patch, verdict, record, retryVars, pipeVars, auxVars>>

PatchNext == FilterGoodPatches \/ BeamSerialize \/ DecodeRecord

SpecPatch == PatchInit /\ [][PatchNext]_vars

(***************************************************************************)
(* TrainingDataGenerator: the configuration set by __init__ (ratios in     *)
(* percent) and the collections built by load_data.                        *)
(***************************************************************************)
Grace == 10
ValidationRatio == 20
TestRatio == 20

MaxSamples == 2
RandomGrid == 10

\* Values of the "random" column, in percent.
RandomPercents == {20, 40, 70}

\* The three filters of load_data on the "random" column.
InTraining(r) == r > ValidationRatio + TestRatio
InValidation(r) == r <= ValidationRatio
MutInTestFromValidation(r) == r >= ValidationRatio /\ r <= ValidationRatio + TestRatio

InTest(r) == r > ValidationRatio /\ r <= ValidationRatio + TestRatio

\* The samples of collection k (0: training, 1: validation, 2: test).
Members(k) ==
    { i \in DOMAIN rnd :
        IF k = 0 THEN InTraining(rnd[i])
        ELSE IF k = 1 THEN InValidation(rnd[i])
        ELSE InTest(rnd[i]) }

\* The collection a pipeline reads: all samples, or the run's collection.
Source == IF mode = "patch" THEN DOMAIN rnd ELSE Members(run)

\* ee.List.get(index): the sample at a position of the source's list.
SampleOf(j) ==
    CHOOSE i \in Source : Cardinality({ m \in Source : m < i }) = j

\* FeatureCollection.toList(count): at most count elements.
ToListLen(size, count) == Min(size, count)

(***************************************************************************)
(* Utils.split_dataset: random.choices([0, 1, 2], weights)[0].  u is the   *)
(* draw of random.random(), in RandomGrid-ths.                             *)
(***************************************************************************)
MutSplitOneBased(u, num_partitions, validation_ratio, test_ratio) ==
    LET weights == << 100 - validation_ratio - test_ratio, validation_ratio, test_ratio >>
        cum     == << weights[1], weights[1] + weights[2],
                      weights[1] + weights[2] + weights[3] >>
    IN  1 + Cardinality({ i \in 1..2 : cum[i] * RandomGrid <= u * cum[3] })

MutSplitUniform(u, num_partitions, validation_ratio, test_ratio) ==
    Cardinality({ i \in 1..2 : i * RandomGrid <= u * 3 })

split_dataset(u, num_partitions, validation_ratio, test_ratio) ==
    LET weights == << 100 - validation_ratio - test_ratio, validation_ratio, test_ratio >>
        cum     == << weights[1], weights[1] + weights[2],
                      weights[1] + weights[2] + weights[3] >>
        \* bisect(cum_weights, random() * total, 0, n - 1)
    IN  Cardinality({ i \in 1..2 : cum[i] * RandomGrid <= u * cum[3] })

(***************************************************************************)
(* Spec: the Beam pipelines.  An exception raised by the function of a     *)
(* Map, Filter or Partition is not caught by the pipeline's code: Beam     *)
(* fails the pipeline, and the with-block raises.                          *)
(***************************************************************************)
OneBand == SubSeq(AllBandNames, 1, 1)

\* The patches the backend returns in the pipeline: all finite; with a NaN;
\* with an infinity; all finite and large.
PipelinePatches ==
    { PatchOf(OneBand, 0, <<1, 1, 1>>, 1, <<1, 1, 2>>, 0),
      PatchOf(OneBand, 0, <<1, 1, 1>>, NaN, <<1, 1, 2>>, 0),
      PatchOf(OneBand, 0, <<1, 1, 1>>, 0, <<1, 1, 2>>, PInf),
      PatchOf(OneBand, FMax, <<1, 1, 1>>, FMax, <<1, 1, 2>>, FMax) }

\* How beam_get_training_patches ends: get_patch returned the array, or the
\* retry wrapper raised (SpecRetry).
FetchOutcomes == {"returned", "RetryError", "HTTPError"}

\* print("Sample size:", ...) and print("Image bands:", ...) of load_data.
SampleSizeLine(n) == [text |-> "Sample size:", arg |-> n]
ImageBandsLine == [text |-> "Image bands:", arg |-> Len(OneBand)]
LoadDataLines(n) == {SampleSizeLine(n), ImageBandsLine}

\* print(f"Yielding Index: {index} of ...") of beam_yield_sample_points.
YieldingLine(j) == [text |-> "Yielding Index:", arg |-> j]

NoElement == [stage |-> "none", p |-> << >>, rec |-> << >>, part |-> -1]

PipeInit ==
    /\ mode \in {"patch", "seed"}
    /\ sample_size \in 1..MaxSamples
    /\ rnd \in [0..(sample_size - 1) -> RandomPercents]
    /\ list_len = ToListLen(sample_size, sample_size + Grace)
    /\ run = 0
    /\ pstate = "loaded"
    /\ tasks = {}
    /\ el = [i \in 0..(sample_size - 1) |-> NoElement]
    /\ out = [k \in 0..2 |-> {}]
    /\ failure = "none"
    /\ printed = LoadDataLines(sample_size)
    /\ PatchIdle
    /\ RetryIdle
    /\ AuxIdle

MutRangeStopWithGrace == sample_size + Grace

\* The stop of "Create range" in generate_training_patch_data.
RangeStop == sample_size

\* "Create range" >> beam.Create(range(0, stop, 1))
CreateRange ==
    /\ pstate = "loaded"
    /\ LET stop == IF mode = "patch" THEN RangeStop ELSE Cardinality(Source)
       IN  /\ tasks' = 0..(stop - 1)
           /\ el' = [i \in DOMAIN el |->
                       IF i \in Source THEN [el[i] EXCEPT !.stage = "pending"]
                       ELSE el[i]]
    /\ pstate' = "running"
    /\ UNCHANGED <<mode, printed, sample_size, rnd, list_len, run, out, failure>>
    /\ UNCHANGED <<patchVars, retryVars, auxVars>>

\* The length of the list handed to beam_yield_sample_points.
CurrentListLen ==
    IF mode = "patch" THEN list_len
    ELSE ToListLen(Cardinality(Source), Cardinality(Source))

\* "Yield sample points" >> beam.Map(EEUtils.beam_yield_sample_points, ...)
YieldSamplePoint(j) ==
    /\ pstate = "running"
    /\ j \in tasks
    /\ \E answered \in BOOLEAN :
         IF j < CurrentListLen /\ answered
            THEN /\ el[SampleOf(j)].stage = "pending"
                 /\ el' = [el EXCEPT ![SampleOf(j)].stage = "point"]
                 /\ printed' = printed \cup {YieldingLine(j)}
                 /\ UNCHANGED <<pstate, failure>>
            ELSE /\ j >= CurrentListLen \/ el[SampleOf(j)].stage = "pending"
                 /\ pstate' = "failed"
                 /\ failure' = "EEException"
                 \* size().getInfo() failed before the line was printed, or
                 \* get(index) failed after it
                 /\ \/ j < CurrentListLen /\ UNCHANGED printed
                    \/ printed' = printed \cup {YieldingLine(j)}
                 /\ UNCHANGED el
    /\ UNCHANGED <<mode, sample_size, rnd, list_len, run, tasks, out>>
    /\ UNCHANGED <<patchVars, retryVars, auxVars>>

\* "Get patch" >> beam.Map(EEUtils.beam_get_training_patches, ...)
GetTrainingPatch(i) ==
    /\ pstate = "running"
    /\ el[i].stage = "point"
    /\ \E outcome \in FetchOutcomes, p \in PipelinePatches :
         IF outcome = "returned"
            THEN /\ el' = [el EXCEPT ![i].stage = "patch", ![i].p = p]
                 /\ UNCHANGED <<pstate, failure>>
            ELSE /\ el' = [el EXCEPT ![i].stage = "error"]
                 /\ pstate' = "failed"
                 /\ failure' = outcome
    /\ UNCHANGED <<mode, printed, sample_size, rnd, list_len, run, tasks, out>>
    /\ UNCHANGED <<patchVars, retryVars, auxVars>>

MutFilterKeepsAll(i) ==
    /\ pstate = "running"
    /\ mode = "patch"
    /\ el[i].stage = "patch"
    /\ el' = [el EXCEPT ![i].stage = "good"]
    /\ UNCHANGED <<mode, printed, sample_size, rnd, list_len, run, pstate, tasks, out, failure>>
    /\ UNCHANGED <<patchVars, retryVars, auxVars>>

\* "Filter patches" >> beam.Filter(Utils.filter_good_patches)
FilterPatch(i) ==
    /\ pstate = "running"
    /\ mode = "patch"
    /\ el[i].stage = "patch"
    /\ el' = [el EXCEPT ![i].stage =
                 IF filter_good_patches(el[i].p) THEN "good" ELSE "dropped"]
    /\ UNCHANGED <<mode, printed, sample_size, rnd, list_len, run, pstate, tasks, out, failure>>
    /\ UNCHANGED <<patchVars, retryVars, auxVars>>

\* "Serialize" >> beam.Map(TFUtils.beam_serialize): after the filter in
\* generate_training_patch_data, after "Get patch" in _generate_data_seed.
Serialize(i) ==
    /\ pstate = "running"
    /\ el[i].stage = (IF mode = "patch" THEN "good" ELSE "patch")
    /\ el' = [el EXCEPT ![i].stage = "record", ![i].rec = beam_serialize(el[i].p)]
    /\ UNCHANGED <<mode, printed, sample_size, rnd, list_len, run, pstate, tasks, out, failure>>
    /\ UNCHANGED <<patchVars, retryVars, auxVars>>

\* "Split dataset" >> beam.Partition(Utils.split_dataset, 3, ...): Beam
\* raises ValueError for an index outside 0..2.
SplitDataset(i) ==
    /\ pstate = "running"
    /\ mode = "patch"
    /\ el[i].stage = "record"
    /\ \E u \in 0..(RandomGrid - 1) :
         LET k == split_dataset(u, 3, ValidationRatio, TestRatio)
         IN  IF k \in 0..2
                THEN /\ el' = [el EXCEPT ![i].stage = "split", ![i].part = k]
                     /\ UNCHANGED <<pstate, failure>>
                ELSE /\ el' = [el EXCEPT ![i].stage = "error", ![i].part = k]
                     /\ pstate' = "failed"
                     /\ failure' = "ValueError"
    /\ UNCHANGED <<mode, printed, sample_size, rnd, list_len, run, tasks, out>>
    /\ UNCHANGED <<patchVars, retryVars, auxVars>>

\* beam.io.WriteToTFRecord: one write per stream in generate_training_patch_data,
\* one per collection in generate_training_patch_seed_data.
WriteRecord(i) ==
    /\ pstate = "running"
    /\ el[i].stage = (IF mode = "patch" THEN "split" ELSE "record")
    /\ LET k == IF mode = "patch" THEN el[i].part ELSE run
       IN  out' = [out EXCEPT ![k] = @ \cup {i}]
    /\ el' = [el EXCEPT ![i].stage = "written"]
    /\ UNCHANGED <<mode, printed, sample_size, rnd, list_len, run, pstate, tasks, failure>>
    /\ UNCHANGED <<patchVars, retryVars, auxVars>>

\* The with-block ends when every element is written or filtered out; in
\* seed mode the next call of _generate_data_seed follows.
FinishPipeline ==
    /\ pstate = "running"
    /\ \A j \in tasks :
         j < CurrentListLen /\ el[SampleOf(j)].stage \in {"written", "dropped"}
    /\ IF mode = "seed" /\ run < 2
          THEN /\ run' = run + 1
               /\ pstate' = "loaded"
               /\ tasks' = {}
          ELSE /\ pstate' = "done"
               /\ UNCHANGED <<run, tasks>>
    /\ UNCHANGED <<mode, printed, sample_size, rnd, list_len, el, out, failure>>
    /\ UNCHANGED <<patchVars, retryVars, auxVars>>

YieldStage == \E j \in tasks : YieldSamplePoint(j)
GetPatchStage == \E i \in DOMAIN el : GetTrainingPatch(i)
FilterStage == \E i \in DOMAIN el : FilterPatch(i)
SerializeStage == \E i \in DOMAIN el : Serialize(i)
SplitStage == \E i \in DOMAIN el : SplitDataset(i)
WriteStage == \E i \in DOMAIN el : WriteRecord(i)

Next ==
    \/ CreateRange
    \/ YieldStage
    \/ GetPatchStage
    \/ FilterStage
    \/ SerializeStage
    \/ SplitStage
    \/ WriteStage
    \/ FinishPipeline

Spec == PipeInit /\ [][Next]_vars

(***************************************************************************)
(* C1.  filter_good_patches rejects every patch with a NaN or an infinite  *)
(* value in any band, and accepts every patch whose values are all finite. *)
(* The second half fails: the test is on the float32 sum of the values,    *)
(* which overflows to an infinity for finite values that are large enough. *)
(***************************************************************************)
C1_ValidatorAcceptsIffAllFinite ==
    ppc = "filtered" =>
        (verdict = "accept" <=> AllFinite(patch))

C1_WitnessFiniteOverflow ==
    ppc = "filtered" /\ AllFinite(patch) /\ verdict = "reject"

(***************************************************************************)
(* C9.  Every serialized record holds exactly the band names of its patch  *)
(* as named fields, each once, and no others.                              *)
(***************************************************************************)
C9_RecordHasExactlyBandNames ==
    ppc \in {"serialized", "decoded"} =>
        /\ { record[i].name : i \in DOMAIN record } = Range(patch.names)
        /\ Len(record) = Len(patch.names)

C9_WitnessTwoBandsSerialized ==
    ppc = "serialized" /\ patch.names = <<"B_before", "G_before">>

(***************************************************************************)
(* C10.  Serializing a validated patch and reading the record back gives   *)
(* the same named arrays: the value of band nm at row r, column c is the   *)
(* ((r-1)*patch_size + c)-th value of the decoded feature nm.              *)
(***************************************************************************)
C10_SerializeDecodeRoundTrips ==
    (ppc = "decoded" /\ verdict = "accept") =>
        /\ DOMAIN decoded = Range(patch.names)
        /\ \A nm \in Range(patch.names) :
              /\ Len(decoded[nm]) = PatchSize * PatchSize
              /\ \A r \in Pixels, c \in Pixels :
                    F32Eq(decoded[nm][(r - 1) * PatchSize + c], patch.data[nm][r][c])

C10_WitnessDecodedDistinctCells ==
    /\ ppc = "decoded"
    /\ verdict = "accept"
    /\ patch.data["B_before"][1][2] # patch.data["B_before"][2][1]

(***************************************************************************)
(* C3.  The retry wrapper of get_patch retries only after the rate-limited *)
(* condition (HTTP 429, TooManyRequests) or a transient network error      *)
(* (ConnectionError); any other response that is not a success raises      *)
(* HTTPError out of the wrapper in the attempt that received it: no call   *)
(* follows it.                                                             *)
(***************************************************************************)
C3_RetryOnlyOnTransient ==
    /\ (rpc = "calling" /\ calls > 0) =>
            last_exc \in {"TooManyRequests", "ConnectionError"}
    /\ (rpc # "idle" /\ last_exc = "HTTPError") =>
            /\ rpc = "raised"
            /\ exc = "HTTPError"
            /\ calls = script.k + 1
    /\ (rpc # "idle" /\ script.k = 0 /\ script.final # "200" /\ calls > 0) =>
            (calls = 1 /\ rpc = "raised" /\ exc = "HTTPError")

C3_WitnessHardFailureFirstAttempt ==
    rpc = "raised" /\ exc = "HTTPError" /\ calls = 1 /\ script.final = "404"

\* The backend of the retry test: 429 to the first k calls, then 200.
FakeBackend == rpc # "idle" /\ script.kind = "429" /\ script.final = "200"

(***************************************************************************)
(* C4.  Against a backend that answers 429 to the first k calls and 200    *)
(* afterwards, the wrapper makes at most k + 1 calls and ends: it returns  *)
(* the patch from call k + 1, started within the 300 seconds, or it raises *)
(* RetryError after at most k calls, when the next sleep would end after   *)
(* the 300 seconds.  Until then a further attempt is always possible.      *)
(***************************************************************************)
C4_FakeBackendWithinBudget ==
    FakeBackend =>
        /\ calls <= script.k + 1
        /\ rpc \in {"calling", "returned", "raised"}
        /\ rpc = "calling" => (calls <= script.k /\ now <= Timeout /\ ENABLED Attempt)
        /\ rpc = "returned" =>
                (calls = script.k + 1 /\ started <= Timeout /\ exc = "none")
        /\ rpc = "raised" =>
                /\ exc = "RetryError"
                /\ calls <= script.k
                /\ now + next_sleep > Timeout

C4_WitnessBudgetExceeded ==
    FakeBackend /\ rpc = "raised" /\ exc = "RetryError" /\ calls < script.k

C4_WitnessReturnedAfterRetries ==
    FakeBackend /\ rpc = "returned" /\ script.k >= 3 /\ calls = script.k + 1

(***************************************************************************)
(* C2.  When the fetch of one element still fails after its retry budget   *)
(* is exhausted (the wrapper raises RetryError), the element is dropped    *)
(* and the pipeline goes on: the failure does not fail the pipeline.       *)
(* The code catches nothing around beam_get_training_patches: RetryError   *)
(* leaves the Map and fails the pipeline.                                  *)
(***************************************************************************)
C2_FetchExhaustionNotFatal ==
    (\E i \in DOMAIN el : el[i].stage = "error" /\ failure = "RetryError") =>
        pstate # "failed"

\* The elements whose fetched patch filter_good_patches turns down.
Rejected == { i \in DOMAIN el : el[i].stage # "none" /\ el[i].stage # "pending"
                                 /\ el[i].stage # "point" /\ el[i].stage # "error"
                                 /\ ~filter_good_patches(el[i].p) }

(***************************************************************************)
(* C5.  In generate_training_patch_data, when the pipeline completes (all  *)
(* n patches were fetched) and r of the n patches fail validation, the     *)
(* three output streams hold n - r records in total, none of them of a     *)
(* patch with a NaN or an infinite value or of a rejected patch, and no    *)
(* error was raised.                                                       *)
(***************************************************************************)
C5_DoneWritesAllButRejected ==
    (mode = "patch" /\ pstate = "done") =>
        /\ Cardinality(out[0]) + Cardinality(out[1]) + Cardinality(out[2])
              = sample_size - Cardinality(Rejected)
        /\ \A k \in 0..2 : \A i \in out[k] :
              AllFinite(el[i].p) /\ i \notin Rejected
        /\ failure = "none"

C5_WitnessDoneWithOneRejected ==
    /\ mode = "patch"
    /\ pstate = "done"
    /\ sample_size = MaxSamples
    /\ \E i \in DOMAIN el : el[i].stage = "dropped" /\ ~AllFinite(el[i].p)
    /\ \E i \in DOMAIN el : el[i].stage = "written"

(***************************************************************************)
(* C6.  No output stream of either patch pipeline ever holds a record of   *)
(* an element that failed: one whose fetch failed, or whose patch has a    *)
(* NaN or an infinite value.  _generate_data_seed has no filter stage: it  *)
(* serializes and writes every fetched patch.                              *)
(***************************************************************************)
C6_NoFailedElementWritten ==
    pstate # "idle" =>
        \A k \in 0..2 : \A i \in out[k] :
            /\ el[i].stage = "written"
            /\ AllFinite(el[i].p)

(***************************************************************************)
(* C7.  split_dataset returns an index in {0, 1, 2} for every element, and *)
(* the Partition stage routes every serialized record to exactly one of    *)
(* the three streams: the streams are pairwise disjoint, a written record  *)
(* is in the stream of its index, and when the pipeline is done the union  *)
(* of the streams is the set of serialized records.                        *)
(***************************************************************************)
C7_PartitionIntoThreeDisjointStreams ==
    mode = "patch" =>
        /\ \A i \in DOMAIN el : el[i].part # -1 => el[i].part \in {0, 1, 2}
        /\ \A i \in DOMAIN el :
              el[i].stage \in {"split", "written"} => el[i].part \in {0, 1, 2}
        /\ out[0] \cap out[1] = {} /\ out[0] \cap out[2] = {} /\ out[1] \cap out[2] = {}
        /\ \A i \in DOMAIN el : \A k \in 0..2 :
              i \in out[k] <=> (el[i].stage = "written" /\ el[i].part = k)
        /\ pstate = "done" =>
              out[0] \cup out[1] \cup out[2] = { i \in DOMAIN el : el[i].rec # << >> }

C7_WitnessTwoStreamsUsed ==
    /\ mode = "patch"
    /\ pstate = "done"
    /\ \E k1, k2 \in 0..2 : k1 # k2 /\ out[k1] # {} /\ out[k2] # {}

MaxScale == 3
MaxKernel == 3

Scales == 1..MaxScale
PatchSizes == 1..MaxKernel
SampleCoords == {<<0, 0>>, <<3, -2>>}

\* The maxError the code hands to buffer and to bounds.
MaxError == 1

MutFloorDivideBy2_h(n) == 2 * (n \div 2)

\* n / 2 in Python 3 (a float, exact for these integers), in half units.
TrueDivideBy2_h(n) == n

\* ee.Geometry.Point(coords).buffer(distance, maxError): the disc around the
\* point; the engine may approximate it within max_error.
Buffer(coords, distance_h, max_error) ==
    [centre |-> coords, radius_h |-> distance_h, max_error |-> max_error]

\* geometry.bounds(maxError): the bounding rectangle of the disc.
Bounds(g, max_error) ==
    [west_h  |-> 2 * g.centre[1] - g.radius_h,
     east_h  |-> 2 * g.centre[1] + g.radius_h,
     south_h |-> 2 * g.centre[2] - g.radius_h,
     north_h |-> 2 * g.centre[2] + g.radius_h,
     max_error |-> max_error]

\* region = point.buffer(scale * patch_size / 2, 1).bounds(1)
RegionOf(coords, sc, ps) ==
    Bounds(Buffer(coords, TrueDivideBy2_h(sc * ps), MaxError), MaxError)

TaskInit ==
    /\ scale \in Scales
    /\ patch_size \in PatchSizes
    /\ wsession = [w \in Workers |-> FALSE]
    /\ wtask = [w \in Workers |-> NoTask]
    /\ PatchIdle /\ RetryIdle /\ PipeIdle /\ SplitIdle
    /\ RunIdle /\ ExportIdle /\ PersistIdle /\ TrainIdle

\* Beam hands the worker the next element of a Map stage.
StartTask(w) ==
    /\ wtask[w].pc = "idle"
    /\ \E k \in {"yield", "fetch"}, c \in SampleCoords :
         wtask' = [wtask EXCEPT ![w] =
                     [kind |-> k, pc |-> "start", own_init |-> FALSE, reqs |-> 0,
                      coords |-> IF k = "fetch" THEN c ELSE <<0, 0>>,
                      region |-> << >>, via |-> "none"]]
    /\ UNCHANGED <<scale, patch_size, wsession,
                   patchVars, retryVars, pipeVars, splitVars,
                   runVars, exportVars, persistVars, trainVars>>

MutSkipInitialize(w) ==
    /\ wtask[w].pc = "start"
    /\ wtask' = [wtask EXCEPT ![w].pc = "ready"]
    /\ UNCHANGED <<scale, patch_size, wsession,
                   patchVars, retryVars, pipeVars, splitVars,
                   runVars, exportVars, persistVars, trainVars>>

\* EEUtils.initialize_session(use_highvolume=True, key=...), the first
\* statement of both task functions after their imports: ee.Initialize
\* succeeds, or raises and ends the call.
InitializeSession(w) ==
    /\ wtask[w].pc = "start"
    /\ \/ /\ wsession' = [wsession EXCEPT ![w] = TRUE]
          /\ wtask' = [wtask EXCEPT ![w].pc = "ready", ![w].own_init = TRUE]
       \/ /\ wtask' = [wtask EXCEPT ![w].pc = "raised"]
          /\ UNCHANGED wsession
    /\ UNCHANGED <<scale, patch_size,
                   patchVars, retryVars, pipeVars, splitVars,
                   runVars, exportVars, persistVars, trainVars>>

\* beam_yield_sample_points: sample_locations.size().getInfo(), then
\* ee.Feature(sample_locations.get(index)).geometry().getInfo().
LookupRequest(w) ==
    /\ wtask[w].kind = "yield"
    /\ wtask[w].pc \in {"ready", "sized"}
    /\ \/ /\ wtask[w].pc = "ready"
          /\ wtask' = [wtask EXCEPT ![w].pc = "sized", ![w].reqs = @ + 1]
       \/ /\ wtask[w].pc = "sized"
          /\ \E c \in SampleCoords :
               wtask' = [wtask EXCEPT ![w].pc = "done", ![w].reqs = @ + 1,
                                      ![w].coords = c]
       \/ wtask' = [wtask EXCEPT ![w].pc = "raised", ![w].reqs = @ + 1]
    /\ UNCHANGED <<scale, patch_size, wsession,
                   patchVars, retryVars, pipeVars, splitVars,
                   runVars, exportVars, persistVars, trainVars>>

\* beam_get_training_patches: the point and the region, built locally.
BuildRegion(w) ==
    /\ wtask[w].kind = "fetch"
    /\ wtask[w].pc = "ready"
    /\ wtask' = [wtask EXCEPT ![w].pc = "region",
                   ![w].region = RegionOf(wtask[w].coords, scale, patch_size)]
    /\ UNCHANGED <<scale, patch_size, wsession,
                   patchVars, retryVars, pipeVars, splitVars,
                   runVars, exportVars, persistVars, trainVars>>

MutFetchViaComputePixel(w) ==
    /\ wtask[w].kind = "fetch"
    /\ wtask[w].pc = "region"
    /\ \E r \in {"done", "raised"} :
         wtask' = [wtask EXCEPT ![w].pc = r, ![w].reqs = @ + 1,
                                ![w].via = "compute_pixel"]
    /\ UNCHANGED <<scale, patch_size, wsession,
                   patchVars, retryVars, pipeVars, splitVars,
                   runVars, exportVars, persistVars, trainVars>>

\* return get_patch(image, region, bands, patch_size): the download request,
\* the one call of an inner function the body makes; compute_pixel is
\* defined and not called.
GetPatchRequest(w) ==
    /\ wtask[w].kind = "fetch"
    /\ wtask[w].pc = "region"
    /\ \E r \in {"done", "raised"} :
         wtask' = [wtask EXCEPT ![w].pc = r, ![w].reqs = @ + 1,
                                ![w].via = "get_patch"]
    /\ UNCHANGED <<scale, patch_size, wsession,
                   patchVars, retryVars, pipeVars, splitVars,
                   runVars, exportVars, persistVars, trainVars>>

\* The call returned or raised; the process stays, and so does its session.
EndTask(w) ==
    /\ wtask[w].pc \in {"done", "raised"}
    /\ wtask' = [wtask EXCEPT ![w] = NoTask]
    /\ UNCHANGED <<scale, patch_size, wsession,
                   patchVars, retryVars, pipeVars, splitVars,
                   runVars, exportVars, persistVars, trainVars>>

StartStep == \E w \in Workers : StartTask(w)
InitializeStep == \E w \in Workers : InitializeSession(w)
LookupStep == \E w \in Workers : LookupRequest(w)
RegionStep == \E w \in Workers : BuildRegion(w)
GetPatchStep == \E w \in Workers : GetPatchRequest(w)
EndStep == \E w \in Workers : EndTask(w)

TaskNext ==
    \/ StartStep
    \/ InitializeStep
    \/ LookupStep
    \/ RegionStep
    \/ GetPatchStep
    \/ EndStep

SpecTask == TaskInit /\ [][TaskNext]_vars

\* C11: every task authenticates its own session before any remote call:
\* on every worker, a call of beam_yield_sample_points or of
\* beam_get_training_patches that has sent a request to the backend has
\* completed its own initialize_session, and the process holds a session.
C11_InitializeBeforeFirstRequest ==
    \A w \in Workers :
        wtask[w].reqs > 0 => wtask[w].own_init /\ wsession[w]

\* Two workers at once: one finished both lookups, the other sent its
\* download request.
C11_WitnessBothTasksRequested ==
    \E w1, w2 \in Workers :
        /\ wtask[w1].kind = "yield" /\ wtask[w1].reqs = 2
        /\ wtask[w2].kind = "fetch" /\ wtask[w2].reqs = 1

\* C18: the region requested for a patch is a square centred on the sample
\* coordinate, with side scale * patch_size (twice that in half units), for
\* every scale and patch size.
C18_RegionIsCentredSquare ==
    \A w \in Workers :
        wtask[w].region # << >> =>
            LET r == wtask[w].region
            IN  /\ r.east_h - r.west_h = 2 * (scale * patch_size)
                /\ r.north_h - r.south_h = 2 * (scale * patch_size)
                /\ r.west_h + r.east_h = 4 * wtask[w].coords[1]
                /\ r.south_h + r.north_h = 4 * wtask[w].coords[2]

\* A region with an odd side, away from the origin, whose request was sent.
C18_WitnessOddSide ==
    \E w \in Workers :
        /\ wtask[w].pc = "done"
        /\ wtask[w].region # << >>
        /\ (scale * patch_size) % 2 = 1
        /\ wtask[w].coords = <<3, -2>>

(***************************************************************************)
(* SpecSplit: Utils.split_dataset called for one element after another in  *)
(* one worker process.  random.choices is the module-level function: it    *)
(* draws from the generator the random module keeps for the whole process. *)
(***************************************************************************)
MaxDraws == 3

\* The ratios tried, in percent.
RatioChoices == {0, 20, 40}

\* The number of partitions "Split dataset" hands to the function.
NumPartitions == 3

\* The generator of the process: its states, and the step one call of
\* random.random() makes.
GenStride == 3
GenStates == 0..(RandomGrid - 1)
GenStep(g) == (g + GenStride) % RandomGrid

\* weights = [1 - validation_ratio - test_ratio, validation_ratio, test_ratio]
Weights(v, t) == << 100 - v - t, v, t >>

SplitInit ==
    /\ vratio \in RatioChoices
    /\ tratio \in RatioChoices
    /\ vratio + tratio < 100
    /\ gen \in GenStates
    /\ gen0 = gen
    /\ draws = 0
    /\ received = {}
    /\ PatchIdle /\ RetryIdle /\ PipeIdle /\ TaskIdle
    /\ RunIdle /\ ExportIdle /\ PersistIdle /\ TrainIdle

\* One element through "Split dataset": random.random() returns the state
\* of the generator of the process, in RandomGrid-ths, and advances it.
SplitElement ==
    /\ draws < MaxDraws
    /\ LET k == split_dataset(gen, NumPartitions, vratio, tratio)
       IN  received' = received \cup {k}
    /\ gen' = GenStep(gen)
    /\ draws' = draws + 1
    /\ UNCHANGED <<vratio, tratio, gen0,
                   patchVars, retryVars, pipeVars, taskVars,
                   runVars, exportVars, persistVars, trainVars>>

SpecSplit == SplitInit /\ [][SplitElement]_vars

\* C12: split_dataset draws each split from a local generator and shares no
\* mutable state between the elements of a process: partitioning elements
\* leaves the generator of the process in the state it started in.
C12_SplitLeavesProcessGeneratorAlone ==
    draws > 0 => gen = gen0

\* The partitions the draws of random.random() can select.
Reachable(v, t) ==
    { split_dataset(u, NumPartitions, v, t) : u \in GenStates }

\* C16: for 0 <= v, 0 <= t, v + t < 1 the draw is weighted by (1-v-t, v, t):
\* the partitions that can be selected are exactly those of non-zero weight
\* (0, the training split, always among them), each is selected by its share
\* of the draws up to one grid step, the partitions that received an element
\* have non-zero weight, and num_partitions does not change the result.
C16_DrawFollowsWeights ==
    LET w == Weights(vratio, tratio)
    IN  /\ Reachable(vratio, tratio) = { k \in 0..2 : w[k + 1] > 0 }
        /\ 0 \in Reachable(vratio, tratio)
        /\ \A k \in 0..2 :
             LET n == Cardinality({ u \in GenStates :
                        split_dataset(u, NumPartitions, vratio, tratio) = k })
             IN  /\ 100 * n - w[k + 1] * RandomGrid < 100
                 /\ w[k + 1] * RandomGrid - 100 * n < 100
        /\ \A k \in received : w[k + 1] > 0
        /\ \A n \in {1, NumPartitions, NumPartitions + 2}, u \in GenStates :
             split_dataset(u, n, vratio, tratio)
                 = split_dataset(u, NumPartitions, vratio, tratio)

\* A validation ratio of zero: elements went to the other two partitions.
C16_WitnessZeroValidation ==
    /\ vratio = 0
    /\ tratio > 0
    /\ draws >= 2
    /\ received = {0, 2}

(***************************************************************************)
(* SpecRun: run_patch_generator, run_patch_generator_seed and              *)
(* run_point_generator from the constructed generator: load_data, then     *)
(* the pipelines of Spec or generate_training_point_data.                  *)
(***************************************************************************)
\* The names class EEUtils defines.
EEUtilsNames ==
    { "get_credentials_by_service_account_key", "initialize_session",
      "calculate_min_max_statistics", "export_collection_data",
      "_export_collection_to_asset", "_export_collection_to_cloud_storage",
      "export_image", "_export_image_to_asset", "country_bbox",
      "get_image_collection_statistics", "calculate_planet_indices",
      "generate_stratified_samples", "sample_image_by_collection",
      "beam_yield_sample_points", "beam_get_training_patches" }

\* Where load_data can raise: initialize_session; size().getInfo() of the
\* samples; bandNames().getInfo() of the image.  "none": it returns.
LoadFailures == {"none", "initialize_session", "size", "bandNames"}

Roles == <<"training", "validation", "testing">>
Descriptions == <<"Training", "Validation", "Test">>

\* The file prefix generate_training_point_data gives collection k.
PointFilePrefix(k, ia) ==
    << "experiments_dnn_points_before_during", IF ia THEN "_after" ELSE "",
       "_", Roles[k + 1], "/", Roles[k + 1] >>

RunInit ==
    /\ mode \in {"patch", "seed", "point"}
    /\ sample_size = 0
    /\ rnd = << >>
    /\ list_len = 0
    /\ run = 0
    /\ pstate = "new"
    /\ tasks = {}
    /\ el = << >>
    /\ out = [k \in 0..2 |-> {}]
    /\ failure = "none"
    /\ printed = {}
    /\ include_after \in (IF mode = "point" THEN BOOLEAN ELSE {FALSE})
    /\ load_exc = "none"
    /\ exports = {}
    /\ PatchIdle /\ RetryIdle /\ TaskIdle /\ SplitIdle
    /\ ExportIdle /\ PersistIdle /\ TrainIdle

MutLoadDataSwallowsError ==
    /\ pstate = "new"
    /\ \E n \in 1..MaxSamples, f \in LoadFailures :
         \E r \in [0..(n - 1) -> RandomPercents] :
              /\ sample_size' = n
              /\ rnd' = r
              /\ list_len' = ToListLen(n, n + Grace)
              /\ el' = [i \in 0..(n - 1) |-> NoElement]
              /\ printed' = LoadDataLines(n)
              /\ load_exc' = IF f = "none" THEN "none" ELSE "EEException"
              /\ pstate' = IF mode = "point" THEN "points" ELSE "loaded"
    /\ UNCHANGED <<mode, run, tasks, out, failure, include_after, exports>>
    /\ UNCHANGED <<patchVars,
                   retryVars, taskVars, splitVars, exportVars,
                   persistVars, trainVars>>

\* self.load_data(), the first statement of the three run methods.  What it
\* raises is not caught: the run method ends there.
LoadData ==
    /\ pstate = "new"
    /\ \E n \in 1..MaxSamples, f \in LoadFailures :
         \E r \in [0..(n - 1) -> RandomPercents] :
           IF f \in {"initialize_session", "size"}
              THEN /\ load_exc' = "EEException"
                   /\ pstate' = "aborted"
                   /\ UNCHANGED <<sample_size, rnd, list_len, el, printed>>
              ELSE /\ sample_size' = n
                   /\ rnd' = r
                   /\ list_len' = ToListLen(n, n + Grace)
                   /\ el' = [i \in 0..(n - 1) |-> NoElement]
                   /\ IF f = "bandNames"
                         THEN /\ printed' = {SampleSizeLine(n)}
                              /\ load_exc' = "EEException"
                              /\ pstate' = "aborted"
                         ELSE /\ printed' = LoadDataLines(n)
                              /\ load_exc' = "none"
                              /\ pstate' = IF mode = "point" THEN "points"
                                           ELSE "loaded"
    /\ UNCHANGED <<mode, run, tasks, out, failure, include_after, exports>>
    /\ UNCHANGED <<patchVars,
                   retryVars, taskVars, splitVars, exportVars,
                   persistVars, trainVars>>

\* The export generate_training_point_data asks for collection k.
PointExport(k) ==
    [ description |-> Descriptions[k + 1],
      file_prefix |-> PointFilePrefix(k, include_after),
      export_type |-> "cloud",
      started     |-> FALSE ]

\* generate_training_point_data: three calls of sample_image_by_collection,
\* then three calls of EEUtils.export_training_data, a name that raises
\* AttributeError when the class does not define it.
GenerateTrainingPointData ==
    /\ pstate = "points"
    /\ IF "export_training_data" \in EEUtilsNames
          THEN /\ exports' = { PointExport(k) : k \in 0..2 }
               /\ pstate' = "done"
               /\ UNCHANGED failure
          ELSE /\ pstate' = "failed"
               /\ failure' = "AttributeError"
               /\ UNCHANGED exports
    /\ UNCHANGED <<mode, sample_size, rnd, list_len, run, tasks, el, out, printed>>
    /\ UNCHANGED <<include_after, load_exc,
                   patchVars, retryVars, taskVars, splitVars,
                   exportVars, persistVars, trainVars>>

RunNext ==
    \/ LoadData
    \/ GenerateTrainingPointData
    \/ CreateRange
    \/ YieldStage
    \/ GetPatchStage
    \/ FilterStage
    \/ SerializeStage
    \/ SplitStage
    \/ WriteStage
    \/ FinishPipeline

SpecRun == RunInit /\ [][RunNext]_vars

\* C13: an error raised by load_data aborts the job before any element is
\* processed: once load_data has failed, the run is over, no pipeline task
\* was created, no element reached a stage and no record was written.
C13_LoadFailureAbortsBeforeElements ==
    load_exc # "none" =>
        /\ pstate = "aborted"
        /\ tasks = {}
        /\ \A i \in DOMAIN el : el[i] = NoElement
        /\ \A k \in 0..2 : out[k] = {}
        /\ exports = {}

\* run_patch_generator whose load_data failed late: the sample size was
\* already read and printed when the band names could not be read.
C13_WitnessLateLoadFailure ==
    /\ mode = "patch"
    /\ load_exc # "none"
    /\ sample_size > 0
    /\ SampleSizeLine(sample_size) \in printed

\* C14: a completed patch-generation job reports the counts of accepted,
\* rejected and retried elements.
C14_DoneJobReportsCounts ==
    mode = "patch" /\ pstate = "done" =>
        \A t \in {"accepted", "rejected", "retried"} :
            \E l \in printed : l.text = t

\* C19: run_point_generator samples the three collections and exports them:
\* a run whose load_data succeeded and that has ended has issued exactly
\* three exports, one per collection, each with its own file prefix.
C19_PointRunIssuesThreeExports ==
    mode = "point" /\ load_exc = "none" /\ pstate \in {"done", "failed"} =>
        /\ Cardinality(exports) = 3
        /\ Cardinality({ e.file_prefix : e \in exports }) = 3
        /\ { e.description : e \in exports } = Range(Descriptions)

(***************************************************************************)
(* SpecExport: one call of EEUtils.export_collection_data.                 *)
(***************************************************************************)
ExportTypes == {"cloud", "asset", "drive"}

\* The keyword arguments a caller may pass, with the values tried.
ParamValues ==
    [ description |-> "Training", file_prefix |-> "training/training",
      bucket |-> "bhutan-aces" ]

\* kwargs.get(key, default)
KwGet(kw, key, default) == IF key \in DOMAIN kw THEN kw[key] ELSE default

\* The task ee.batch.Export.table.toCloudStorage is asked for.
CloudTask(kw, start) ==
    LET description == KwGet(kw, "description", "myExportTableTask")
    IN  [ kind |-> "cloud",
          description |-> description,
          target |-> KwGet(kw, "file_prefix", description),
          bucket |-> KwGet(kw, "bucket", "myBucket"),
          fileFormat |-> KwGet(kw, "file_format", "TFRecord"),
          started |-> start ]

\* The task ee.batch.Export.table.toAsset is asked for.
AssetTask(kw, start) ==
    [ kind |-> "asset",
      description |-> KwGet(kw, "description", "myExportTableTask"),
      target |-> KwGet(kw, "asset_id", "myAssetId"),
      bucket |-> "",
      fileFormat |-> "",
      started |-> start ]

ExportInit ==
    /\ export_type \in ExportTypes
    /\ start_training \in BOOLEAN
    /\ \E keys \in SUBSET DOMAIN ParamValues :
         params = [k \in keys |-> ParamValues[k]]
    /\ backend_up \in BOOLEAN
    /\ epc = "called"
    /\ xtasks = {}
    /\ xexc = "none"
    /\ PatchIdle /\ RetryIdle /\ PipeIdle /\ TaskIdle
    /\ SplitIdle /\ RunIdle /\ PersistIdle /\ TrainIdle

\* if export_type == "cloud": _export_collection_to_cloud_storage(...).  The
\* default of selectors, collection.first().propertyNames().getInfo(), is
\* evaluated whether or not selectors is given: a request that can fail.
CloudIf ==
    /\ epc = "called"
    /\ IF export_type = "cloud"
          THEN IF backend_up
                  THEN /\ xtasks' = xtasks \cup {CloudTask(params, start_training)}
                       /\ epc' = "second_if"
                       /\ UNCHANGED xexc
                  ELSE /\ epc' = "raised"
                       /\ xexc' = "EEException"
                       /\ UNCHANGED xtasks
          ELSE /\ epc' = "second_if"
               /\ UNCHANGED <<xtasks, xexc>>
    /\ UNCHANGED <<export_type, start_training, params, backend_up,
                   patchVars, retryVars, pipeVars, taskVars,
                   splitVars, runVars, persistVars, trainVars>>

\* if export_type == "asset": _export_collection_to_asset(...)
\* else: raise NotImplementedError(...)
AssetIfElse ==
    /\ epc = "second_if"
    /\ IF export_type = "asset"
          THEN IF backend_up
                  THEN /\ xtasks' = xtasks \cup {AssetTask(params, start_training)}
                       /\ epc' = "returned"
                       /\ UNCHANGED xexc
                  ELSE /\ epc' = "raised"
                       /\ xexc' = "EEException"
                       /\ UNCHANGED xtasks
          ELSE /\ epc' = "raised"
               /\ xexc' = "NotImplementedError"
               /\ UNCHANGED xtasks
    /\ UNCHANGED <<export_type, start_training, params, backend_up,
                   patchVars, retryVars, pipeVars, taskVars,
                   splitVars, runVars, persistVars, trainVars>>

SpecExport == ExportInit /\ [][CloudIf \/ AssetIfElse]_vars

\* C20: export_collection_data raises NotImplementedError only for an
\* unsupported export_type, and then makes no export; with "cloud" it makes
\* the cloud-storage export and returns without raising, with "asset" the
\* asset export (the backend answering).
C20_RaisesOnlyForUnsupportedType ==
    /\ xexc = "NotImplementedError" =>
          export_type \notin {"cloud", "asset"} /\ xtasks = {}
    /\ epc \in {"returned", "raised"} /\ backend_up /\ export_type = "cloud" =>
          /\ epc = "returned"
          /\ xtasks = {CloudTask(params, start_training)}
    /\ epc \in {"returned", "raised"} /\ backend_up /\ export_type = "asset" =>
          /\ epc = "returned"
          /\ xtasks = {AssetTask(params, start_training)}

(***************************************************************************)
(* SpecCompute: one call of compute_pixel under @retry.Retry(), the        *)
(* decorator with every argument at the library's default: the timeout is  *)
(* 120 seconds, the predicate if_transient_error.  Time is in seconds; a   *)
(* request to the backend takes at least one.                              *)
(***************************************************************************)
DefaultTimeout == 120

\* The backend of compute_pixel: script.kind to the first script.k calls (to
\* every call when script.k is negative), then script.final.
Forever == -1
ComputeResponse(n) ==
    IF script.k = Forever \/ n <= script.k THEN script.kind ELSE script.final

\* One call of compute_pixel: what ee.data.computePixels raises ("none": the
\* array is returned).  The client library raises EEException for an error
\* response of the backend; a dropped connection surfaces as ConnectionError.
compute_pixel(resp) ==
    IF resp = "conn" THEN "ConnectionError"
    ELSE IF resp = "error" THEN "EEException"
    ELSE "none"

MutDefaultDeadlineNeverExceeded(t, sleep) == FALSE

\* The deadline test of the default timeout.
DefaultDeadlineExceeded(t, sleep) == t + sleep > DefaultTimeout

ComputeDurations == {1, MaxCallSeconds}

ComputeInit ==
    /\ script \in [k : {Forever} \cup 0..MaxK, kind : {"conn", "error"},
                   final : {"ok", "error"}]
    /\ rpc = "calling"
    /\ now = 0
    /\ started = 0
    /\ calls = 0
    /\ max_delay = Min(RetryInitial, RetryMaximum)
    /\ last_exc = "none"
    /\ next_sleep = 0
    /\ exc = "none"
    /\ PatchIdle
    /\ PipeIdle
    /\ AuxIdle

\* One turn of retry_target's loop around compute_pixel.
ComputeAttempt ==
    /\ rpc = "calling"
    /\ \E dur \in ComputeDurations, sleep \in SleepChoices(max_delay) :
         LET e == compute_pixel(ComputeResponse(calls + 1))
             t == now + dur
         IN  /\ started' = now
             /\ calls' = calls + 1
             /\ last_exc' = e
             /\ IF e = "none"
                   THEN /\ rpc' = "returned"
                        /\ now' = t
                        /\ UNCHANGED <<exc, next_sleep, max_delay>>
                ELSE IF ~if_transient_error(e)
                   THEN /\ rpc' = "raised"
                        /\ exc' = e
                        /\ now' = t
                        /\ UNCHANGED <<next_sleep, max_delay>>
                ELSE IF DefaultDeadlineExceeded(t, sleep)
                   THEN /\ rpc' = "raised"
                        /\ exc' = "RetryError"
                        /\ now' = t
                        /\ next_sleep' = sleep
                        /\ UNCHANGED max_delay
                ELSE /\ rpc' = "calling"
                     /\ now' = t + sleep
                     /\ next_sleep' = sleep
                     /\ max_delay' = Min(max_delay * RetryMultiplier, RetryMaximum)
                     /\ UNCHANGED exc
    /\ UNCHANGED <<script, patchVars, pipeVars, auxVars>>

SpecCompute == ComputeInit /\ [][ComputeAttempt]_vars

\* C17: compute_pixel is retried on transient failure under a bounded
\* budget and never forever: a call is made again only after a failure the
\* predicate accepts and only within the 120 seconds, so at most 121 calls
\* are made whatever the backend does; when the next sleep would end after
\* the 120 seconds the wrapper raises RetryError, and against a backend that
\* fails every call it never returns.
C17_ComputePixelBoundedRetry ==
    /\ calls <= now
    /\ rpc = "calling" =>
          /\ now <= DefaultTimeout
          /\ calls <= DefaultTimeout
          /\ calls > 0 => if_transient_error(last_exc)
    /\ started <= DefaultTimeout
    /\ calls <= DefaultTimeout + 1
    /\ exc = "RetryError" =>
          /\ rpc = "raised"
          /\ if_transient_error(last_exc)
          /\ now + next_sleep > DefaultTimeout
    /\ script.k = Forever => rpc \in {"calling", "raised"}

\* The backend dropped every connection: the budget ran out after more
\* calls than any finite script of the other runs holds.
C17_WitnessBudgetExhausted ==
    /\ script.k = Forever
    /\ rpc = "raised"
    /\ exc = "RetryError"
    /\ calls > MaxK + 1

(***************************************************************************)
(* SpecPersist: the paths the three streams are written to by              *)
(* generate_training_patch_data and generate_training_patch_seed_data.  A  *)
(* path is the sequence of the pieces its f-string joins.                  *)
(***************************************************************************)
MaxRecords == 2

KernelSizes == {64, DefaultKernelSize, 256}

OutputBucket == "bhutan-aces"

MutOutputPathOneDirectory(m, k, ks, ia) ==
    << "gs://", OutputBucket,
       IF m = "patch" THEN "/experiments_paro_" ELSE "/experiments_paro_seed_",
       ks, "x", ks, "_before_during", IF ia THEN "_after" ELSE "",
       "_", Roles[1], "/", Roles[1] >>

\* The path of stream k (0: training, 1: validation, 2: test) written by
\* method m with kernel size ks and include_after ia.
OutputPath(m, k, ks, ia) ==
    << "gs://", OutputBucket,
       IF m = "patch" THEN "/experiments_paro_" ELSE "/experiments_paro_seed_",
       ks, "x", ks, "_before_during", IF ia THEN "_after" ELSE "",
       "_", Roles[k + 1], "/", Roles[k + 1] >>

PersistInit ==
    /\ kernel_size \in KernelSizes
    /\ wafter \in BOOLEAN
    /\ wmode \in {"patch", "seed"}
    /\ written = {}
    /\ PatchIdle /\ RetryIdle /\ PipeIdle /\ TaskIdle
    /\ SplitIdle /\ RunIdle /\ ExportIdle /\ TrainIdle

\* beam.io.WriteToTFRecord(path of stream k, ...) writes record i of stream k.
WriteToTFRecord(k, i) ==
    /\ \A w \in written : ~(w.stream = k /\ w.id = i)
    /\ written' = written \cup
          { [ path |-> OutputPath(wmode, k, kernel_size, wafter),
              stream |-> k, id |-> i ] }
    /\ UNCHANGED <<kernel_size, wafter, wmode,
                   patchVars, retryVars, pipeVars, taskVars,
                   splitVars, runVars, exportVars, trainVars>>

PersistNext == \E k \in 0..2, i \in 1..MaxRecords : WriteToTFRecord(k, i)

SpecPersist == PersistInit /\ [][PersistNext]_vars

\* C15: each of the three streams is written to its own location: for every
\* kernel size and include_after (and both methods) the training, validation
\* and testing paths are pairwise distinct, and the records found under one
\* path all belong to one stream.
C15_StreamsHaveDistinctPaths ==
    /\ \A m \in {"patch", "seed"}, ks \in KernelSizes, ia \in BOOLEAN :
         \A k1, k2 \in 0..2 :
             k1 # k2 => OutputPath(m, k1, ks, ia) # OutputPath(m, k2, ks, ia)
    /\ \A w1, w2 \in written : w1.path = w2.path => w1.stream = w2.stream

\* Every stream has written all its records, with include_after set.
C15_WitnessAllStreamsWritten ==
    /\ wafter
    /\ Cardinality(written) = 3 * MaxRecords
    /\ Cardinality({ w.path : w \in written }) = 3

\* The collections of load_data a sample with "random" value r belongs to.
CollectionsOf(r) ==
    { k \in 0..2 : IF k = 0 THEN InTraining(r)
                   ELSE IF k = 1 THEN InValidation(r)
                   ELSE InTest(r) }

\* C21: the three collections load_data filters out of the sample locations
\* (training: random > v + t; validation: random <= v; test: v < random
\* <= v + t) partition them: every random value in [0, 1), here in percent,
\* selects exactly one collection, and every sample load_data read is a
\* member of exactly one.
C21_CollectionsPartitionSamples ==
    /\ \A r \in 0..99 : Cardinality(CollectionsOf(r)) = 1
    /\ \A i \in DOMAIN rnd :
         Cardinality({ k \in 0..2 : i \in Members(k) }) = 1
    /\ Members(0) \cup Members(1) \cup Members(2) = DOMAIN rnd

\* load_data read two samples on the two boundaries: random = v went to
\* validation, random = v + t to test.
C21_WitnessBoundarySamples ==
    /\ pstate = "loaded"
    /\ load_exc = "none"
    /\ \E i \in Members(1) : rnd[i] = ValidationRatio
    /\ \E i \in Members(2) : rnd[i] = ValidationRatio + TestRatio

(***************************************************************************)
(* SpecTrain: ModelTrainer.train_model, run by two trainers that share one *)
(* OUTPUT_DIR, model type and date.  A directory is named by its version   *)
(* number.                                                                 *)
(***************************************************************************)
MaxExisting == 2

TrainInit ==
    /\ \E cfg \in [Trainers -> BOOLEAN \X BOOLEAN] :
         trainer = [t \in Trainers |->
                      [NoTrainer EXCEPT !.ai = cfg[t][1], !.dnn = cfg[t][2],
                                        !.pc = "create_datasets"]]
    /\ dirs \in SUBSET (1..MaxExisting)
    /\ dirs0 = dirs
    /\ outdir \in BOOLEAN
    /\ PatchIdle /\ RetryIdle /\ PipeIdle /\ TaskIdle
    /\ SplitIdle /\ RunIdle /\ ExportIdle /\ PersistIdle

\* clear_session, configure_memory_growth, self.create_datasets(...)
CreateDatasets(t) ==
    /\ trainer[t].pc = "create_datasets"
    /\ trainer' = [trainer EXCEPT ![t].pc = "build"]
    /\ UNCHANGED <<dirs, dirs0, outdir,
                   patchVars, retryVars, pipeVars, taskVars,
                   splitVars, runVars, exportVars, persistVars>>

\* The build step of train_model:
\*   if USE_AI_PLATFORM: if IS_DNN: build_and_compile_model_ai_platform()
\*   else: build_and_compile_model(...)
\* The first assigns self._model and self.model, the second self.model.
BuildAndCompile(t) ==
    /\ trainer[t].pc = "build"
    /\ trainer' = [trainer EXCEPT
          ![t].pc = "prepare_output_dir",
          ![t].iterator = 1,
          ![t].model = IF trainer[t].ai THEN trainer[t].dnn ELSE TRUE,
          ![t].model_ = trainer[t].ai /\ trainer[t].dnn]
    /\ UNCHANGED <<dirs, dirs0, outdir,
                   patchVars, retryVars, pipeVars, taskVars,
                   splitVars, runVars, exportVars, persistVars>>

MutMkdirExistOk(t) ==
    /\ trainer[t].pc = "prepare_output_dir"
    /\ outdir
    /\ dirs' = dirs \cup {trainer[t].iterator}
    /\ trainer' = [trainer EXCEPT ![t].save_dir = trainer[t].iterator,
                                  ![t].created = trainer[t].iterator,
                                  ![t].pc = "start_training"]
    /\ UNCHANGED <<dirs0, outdir,
                   patchVars, retryVars, pipeVars, taskVars,
                   splitVars, runVars, exportVars, persistVars>>

\* One turn of the loop of prepare_output_dir: MODEL_SAVE_DIR is assigned,
\* then os.mkdir creates the directory, raises FileExistsError (the loop goes
\* on with the next version) or raises FileNotFoundError (no OUTPUT_DIR).
Mkdir(t) ==
    /\ trainer[t].pc = "prepare_output_dir"
    /\ LET v == trainer[t].iterator
       IN  IF ~outdir
              THEN /\ trainer' = [trainer EXCEPT ![t].save_dir = v,
                                     ![t].pc = "raised",
                                     ![t].exc = "FileNotFoundError"]
                   /\ UNCHANGED dirs
           ELSE IF v \in dirs
              THEN /\ trainer' = [trainer EXCEPT ![t].save_dir = v,
                                     ![t].iterator = v + 1]
                   /\ UNCHANGED dirs
           ELSE /\ dirs' = dirs \cup {v}
                /\ trainer' = [trainer EXCEPT ![t].save_dir = v,
                                  ![t].created = v,
                                  ![t].pc = "start_training"]
    /\ UNCHANGED <<dirs0, outdir,
                   patchVars, retryVars, pipeVars, taskVars,
                   splitVars, runVars, exportVars, persistVars>>

\* self.start_training(): self.model.fit(...)
StartTraining(t) ==
    /\ trainer[t].pc = "start_training"
    /\ trainer' = [trainer EXCEPT
          ![t].pc = IF trainer[t].model THEN "evaluate" ELSE "raised",
          ![t].exc = IF trainer[t].model THEN "none" ELSE "AttributeError"]
    /\ UNCHANGED <<dirs, dirs0, outdir,
                   patchVars, retryVars, pipeVars, taskVars,
                   splitVars, runVars, exportVars, persistVars>>

\* self.model.summary() (AI platform), self.evaluate_and_print_val()
EvaluateAndPrintVal(t) ==
    /\ trainer[t].pc = "evaluate"
    /\ trainer' = [trainer EXCEPT
          ![t].pc = IF trainer[t].model THEN "save" ELSE "raised",
          ![t].exc = IF trainer[t].model THEN "none" ELSE "AttributeError"]
    /\ UNCHANGED <<dirs, dirs0, outdir,
                   patchVars, retryVars, pipeVars, taskVars,
                   splitVars, runVars, exportVars, persistVars>>

\* save_parameters, save_history_object, save_model_config (of self._model
\* on the AI platform, of self.model otherwise), save_plots, save_models.
SaveResults(t) ==
    /\ trainer[t].pc = "save"
    /\ LET ok == /\ trainer[t].model
                 /\ trainer[t].ai => trainer[t].model_
       IN  trainer' = [trainer EXCEPT
              ![t].pc = IF ok THEN "done" ELSE "raised",
              ![t].exc = IF ok THEN "none" ELSE "AttributeError"]
    /\ UNCHANGED <<dirs, dirs0, outdir,
                   patchVars, retryVars, pipeVars, taskVars,
                   splitVars, runVars, exportVars, persistVars>>

DatasetsStep == \E t \in Trainers : CreateDatasets(t)
BuildStep == \E t \in Trainers : BuildAndCompile(t)
MkdirStep == \E t \in Trainers : Mkdir(t)
TrainingStep == \E t \in Trainers : StartTraining(t)
EvaluateStep == \E t \in Trainers : EvaluateAndPrintVal(t)
SaveStep == \E t \in Trainers : SaveResults(t)

TrainNext ==
    \/ DatasetsStep
    \/ BuildStep
    \/ MkdirStep
    \/ TrainingStep
    \/ EvaluateStep
    \/ SaveStep

SpecTrain == TrainInit /\ [][TrainNext]_vars

\* C22: in train_model, for every combination of USE_AI_PLATFORM and
\* IS_DNN, the build step has assigned self.model before start_training,
\* the evaluation and the saving use it: no trainer stands before one of
\* these steps without a model, and none ends with AttributeError.
C22_ModelBuiltBeforeUse ==
    \A t \in Trainers :
        /\ trainer[t].pc \in {"start_training", "evaluate", "save", "done"}
              => trainer[t].model
        /\ trainer[t].exc # "AttributeError"

\* C23: prepare_output_dir never reuses an existing directory: the
\* directory a trainer created did not exist before, every smaller version
\* exists, MODEL_SAVE_DIR names it, two trainers end with different
\* directories, and the loop makes at most one turn per existing version
\* and one more, each turn being possible while OUTPUT_DIR exists.
C23_FreshSmallestVersion ==
    /\ \A t \in Trainers :
         /\ trainer[t].created # 0 =>
               /\ trainer[t].created \notin dirs0
               /\ trainer[t].created \in dirs
               /\ trainer[t].save_dir = trainer[t].created
               /\ \A v \in 1..(trainer[t].created - 1) : v \in dirs
         /\ trainer[t].iterator <= Cardinality(dirs) + 1
         /\ trainer[t].pc = "prepare_output_dir" /\ outdir => ENABLED Mkdir(t)
    /\ \A t1, t2 \in Trainers :
         t1 # t2 /\ trainer[t1].created # 0 /\ trainer[t2].created # 0 =>
             trainer[t1].created # trainer[t2].created

\* Versions 1 and 2 existed; the two trainers, in their loops at the same
\* time, created versions 3 and 4.
C23_WitnessTwoNewVersions ==
    /\ dirs0 = 1..MaxExisting
    /\ \A t \in Trainers : trainer[t].created > MaxExisting
    /\ Cardinality({ trainer[t].created : t \in Trainers }) = 2

\* C24: beam_get_training_patches always obtains the patch through get_patch
\* (the download URL, under the 300-second retry): on every worker, a fetch
\* that has sent its request sent it through get_patch, and no task ever
\* goes through compute_pixel.
C24_FetchAlwaysViaGetPatch ==
    \A w \in Workers :
        /\ wtask[w].via # "compute_pixel"
        /\ wtask[w].kind = "fetch" /\ wtask[w].reqs > 0 =>
              wtask[w].via = "get_patch"
        /\ wtask[w].kind = "yield" => wtask[w].via = "none"

\* Every worker has a fetch whose request was sent, one of them failed.
C24_WitnessAllWorkersFetched ==
    /\ \A w \in Workers : wtask[w].kind = "fetch" /\ wtask[w].reqs = 1
    /\ \E w \in Workers : wtask[w].pc = "raised"
    /\ \E w \in Workers : wtask[w].pc = "done"

====
